---- MODULE Spec2Model ----
(***************************************************************************)
(* A model of libOptional::Optional<T> (include/lib-optional/optional.hpp).*)
(*                                                                         *)
(* The state is a small family of optional objects.  Each object is the    *)
(* pair the class keeps, the flag mInitialized and the union storage       *)
(* mValue, together with two facts the C++ object model attaches to the    *)
(* storage: whether the optional object itself is within its lifetime      *)
(* (alive) and whether the storage currently holds an element that was     *)
(* constructed by placement new and whose destructor has not run (live).   *)
(* Every member function is one action, translated branch by branch.       *)
(***************************************************************************)
EXTENDS Integers, Sequences, FiniteSets, TLC

\* Largest element value; element values are 0..MaxVal.
MaxVal == 1

Vals == 0 .. MaxVal

\* Content of storage that holds no element.
NoVal == 0 - 1

\* The optional objects of the model: 1, 2 and 5 are Optional<T>, 3 is
\* Optional<TOther> (TOther converts to T, as B* converts to A*), 4 and 6 are
\* Optional<T&>, whose mValue is the identity of the bound external object.
Opts == 1 .. 6

\* The external objects an Optional<T&> can be bound to, by identity.
Ext == Vals

\* The objects a run uses: two of a value type with one of a type that
\* converts to it, or two of a value type with one of a reference type.
ConvObjs == {1, 2, 3}

RefObjs == {1, 2, 4}

\* Three optionals of one value type, for the observers and the relations.
ObsObjs == {1, 2, 5}

\* One optional of a value type and two of a reference type, for the
\* bindings to external objects.
BindObjs == {1, 4, 6}

TypeOf(i) == CASE i \in {1, 2, 5} -> "T"
               [] i = 3 -> "TOther"
               [] OTHER -> "TRef"

\* The overloads of value(): const&, & and && (the last only for non-reference T).
Quals == {"const&", "&", "&&"}

VARIABLES
    opt,    \* opt[i]: the optional object i: [alive, mInitialized, live, mValue]
    pre,    \* the value of opt before the last operation
    ev,     \* the last operation: its name, operands, whether it threw, and the
            \* element operations it invoked, in order
    held,   \* held[i]: i was last constructed or assigned with a value and has
            \* not since been reset or moved from (a history of the calls made)
    ext,    \* ext[x]: the value of the external object x
    extPre  \* the value of ext before the last operation

vars == <<opt, pre, ev, held, ext, extPre>>

\* An optional object outside its lifetime.
NoObject == [alive |-> FALSE, mInitialized |-> FALSE, live |-> FALSE, mValue |-> NoVal]

\* Optional(): mEmpty(), mInitialized(false).
EmptyObject == [alive |-> TRUE, mInitialized |-> FALSE, live |-> FALSE, mValue |-> NoVal]

\* What a moved-from element may hold: the element type decides (a pointer
\* keeps its value, a std::string is left empty).
MovedFrom(v) == {v, 0}

\* The record of an operation: arg is the value (or external object) passed
\* to it, res what it returned; NoVal and <<>> stand for none.
EvQ(op, t, s, raised, ops, q) ==
    [op |-> op, tgt |-> t, src |-> s, raised |-> raised, ops |-> ops, qual |-> q,
     arg |-> NoVal, res |-> <<>>]

WithArg(e, v) == [e EXCEPT !.arg = v]

WithRes(e, r) == [e EXCEPT !.res = r]

Ev(op, t, s, raised, ops) == EvQ(op, t, s, raised, ops, "-")

\* construct(args...): placement new into mValue, then mInitialized = true.
construct(s, v) == [s EXCEPT !.mValue = v, !.live = TRUE, !.mInitialized = TRUE]

\* A reset() that destroys the element and leaves the flag set.
reset_KeepsFlag(s) ==
    IF s.mInitialized
    THEN [s EXCEPT !.live = FALSE, !.mValue = NoVal]
    ELSE s

\* reset(): if (mInitialized) { mInitialized = false; mValue.~ValueType(); }
reset(s) ==
    IF s.mInitialized
    THEN [s EXCEPT !.mInitialized = FALSE, !.live = FALSE, !.mValue = NoVal]
    ELSE s

\* The element operations reset() invokes.
resetOps(s) == IF s.mInitialized THEN <<"dtor">> ELSE <<>>

\* bool hasValue() const noexcept { return mInitialized; }
hasValue(s) == s.mInitialized

Init ==
    /\ opt = [i \in Opts |-> NoObject]
    /\ pre = [i \in Opts |-> NoObject]
    /\ ev = Ev("Init", 0, 0, FALSE, <<>>)
    /\ held = [i \in Opts |-> FALSE]
    /\ ext = [x \in Ext |-> 0]
    /\ extPre = [x \in Ext |-> 0]

\* std::terminate has been called: an exception left a function whose
\* noexcept specification is true.  The program does nothing after it.
Terminated == ev.ops # <<>> /\ ev.ops[Len(ev.ops)] = "terminate"

\* Every action ends here: the new objects, the operation's record, the new
\* values of the external objects.
StepExt(o, e, h, x) ==
    /\ ~Terminated
    /\ opt' = o
    /\ pre' = opt
    /\ ev' = e
    /\ held' = h
    /\ ext' = x
    /\ extPre' = ext

\* The end of an action that writes no external object.
Step(o, e, h) == StepExt(o, e, h, ext)

(***************************************************************************)
(* Constructors.  The object constructed is one outside its lifetime.     *)
(***************************************************************************)

\* Optional() noexcept : mEmpty(), mInitialized(false) {}
DefaultCtor(i) ==
    /\ ~opt[i].alive
    /\ Step([opt EXCEPT ![i] = EmptyObject],
            Ev("DefaultCtor", i, 0, FALSE, <<>>),
            [held EXCEPT ![i] = FALSE])

\* Optional(NullOptionalT) noexcept {}: the member initializer of
\* mInitialized (= false) applies.
NullOptCtor(i) ==
    /\ ~opt[i].alive
    /\ Step([opt EXCEPT ![i] = EmptyObject],
            Ev("NullOptCtor", i, 0, FALSE, <<>>),
            [held EXCEPT ![i] = FALSE])

\* A copy constructor written as the move constructor is: it moves the
\* element out of other and clears other's flag.
CopyCtor_StealsSource(b, a) ==
    /\ ~opt[b].alive
    /\ opt[a].alive
    /\ TypeOf(a) = TypeOf(b)
    /\ IF opt[a].mInitialized
       THEN Step([opt EXCEPT ![b] = construct(EmptyObject, opt[a].mValue),
                             ![a] = [opt[a] EXCEPT !.mInitialized = FALSE]],
                 Ev("CopyCtor", b, a, FALSE, <<"moveCtor">>),
                 [held EXCEPT ![b] = held[a]])
       ELSE Step([opt EXCEPT ![b] = EmptyObject],
                 Ev("CopyCtor", b, a, FALSE, <<>>),
                 [held EXCEPT ![b] = held[a]])

\* Optional(const Optional& other): if (other.mInitialized) construct(other.mValue);
CopyCtor(b, a) ==
    /\ ~opt[b].alive
    /\ opt[a].alive
    /\ TypeOf(a) = TypeOf(b)
    /\ IF opt[a].mInitialized
       THEN Step([opt EXCEPT ![b] = construct(EmptyObject, opt[a].mValue)],
                 Ev("CopyCtor", b, a, FALSE, <<"copyCtor">>),
                 [held EXCEPT ![b] = held[a]])
       ELSE Step([opt EXCEPT ![b] = EmptyObject],
                 Ev("CopyCtor", b, a, FALSE, <<>>),
                 [held EXCEPT ![b] = held[a]])

\* A move constructor that does not clear the source's flag.
MoveCtor_KeepsSource(b, a) ==
    /\ ~opt[b].alive
    /\ opt[a].alive
    /\ TypeOf(a) = TypeOf(b)
    /\ IF opt[a].mInitialized
       THEN \E r \in MovedFrom(opt[a].mValue) :
              Step([opt EXCEPT ![b] = construct(EmptyObject, opt[a].mValue),
                               ![a] = [opt[a] EXCEPT !.mValue = r]],
                   Ev("MoveCtor", b, a, FALSE, <<"moveCtor">>),
                   [held EXCEPT ![b] = held[a], ![a] = FALSE])
       ELSE Step([opt EXCEPT ![b] = EmptyObject],
                 Ev("MoveCtor", b, a, FALSE, <<>>),
                 [held EXCEPT ![b] = held[a], ![a] = FALSE])

\* Optional(Optional&& other): if (other.mInitialized) {
\*     construct(std::move(other.mValue)); other.mInitialized = false; }
\* The moved-from element of other is not destroyed.
MoveCtor(b, a) ==
    /\ ~opt[b].alive
    /\ opt[a].alive
    /\ TypeOf(a) = TypeOf(b)
    /\ IF opt[a].mInitialized
       THEN \E r \in MovedFrom(opt[a].mValue) :
              Step([opt EXCEPT ![b] = construct(EmptyObject, opt[a].mValue),
                               ![a] = [opt[a] EXCEPT !.mValue = r,
                                                     !.mInitialized = FALSE]],
                   Ev("MoveCtor", b, a, FALSE, <<"moveCtor">>),
                   [held EXCEPT ![b] = held[a], ![a] = FALSE])
       ELSE Step([opt EXCEPT ![b] = EmptyObject],
                 Ev("MoveCtor", b, a, FALSE, <<>>),
                 [held EXCEPT ![b] = held[a], ![a] = FALSE])

\* emplace(args...): reset(); construct(args...); return mValue;
emplace(s, v) == construct(reset(s), v)

\* A converting copy constructor without the test of other.
ConvCopyCtor_Unconditional(b, a) ==
    /\ ~opt[b].alive
    /\ opt[a].alive
    /\ TypeOf(b) = "T" /\ TypeOf(a) = "TOther"
    /\ Step([opt EXCEPT ![b] = emplace(EmptyObject, opt[a].mValue)],
            Ev("ConvCopyCtor", b, a, FALSE, <<"ctor">>),
            [held EXCEPT ![b] = held[a]])

\* Optional(const Optional<TOther>& other): if (other) emplace(*other);
\* (both the implicit and the explicit overload).
ConvCopyCtor(b, a) ==
    /\ ~opt[b].alive
    /\ opt[a].alive
    /\ TypeOf(b) = "T" /\ TypeOf(a) = "TOther"
    /\ IF opt[a].mInitialized
       THEN Step([opt EXCEPT ![b] = emplace(EmptyObject, opt[a].mValue)],
                 Ev("ConvCopyCtor", b, a, FALSE, <<"ctor">>),
                 [held EXCEPT ![b] = held[a]])
       ELSE Step([opt EXCEPT ![b] = EmptyObject],
                 Ev("ConvCopyCtor", b, a, FALSE, <<>>),
                 [held EXCEPT ![b] = held[a]])

\* A converting move constructor that clears the source's flag, as the
\* same-type move constructor does.
ConvMoveCtor_ClearsSource(b, a) ==
    /\ ~opt[b].alive
    /\ opt[a].alive
    /\ TypeOf(b) = "T" /\ TypeOf(a) = "TOther"
    /\ IF opt[a].mInitialized
       THEN \E r \in MovedFrom(opt[a].mValue) :
              Step([opt EXCEPT ![b] = emplace(EmptyObject, opt[a].mValue),
                               ![a] = [opt[a] EXCEPT !.mValue = r,
                                                     !.mInitialized = FALSE]],
                   Ev("ConvMoveCtor", b, a, FALSE, <<"ctor">>),
                   [held EXCEPT ![b] = held[a], ![a] = FALSE])
       ELSE Step([opt EXCEPT ![b] = EmptyObject],
                 Ev("ConvMoveCtor", b, a, FALSE, <<>>),
                 [held EXCEPT ![b] = held[a], ![a] = FALSE])

\* Optional(Optional<TOther>&& other): if (other) emplace(std::move(*other));
\* (both overloads).  The flag of other is not touched.
ConvMoveCtor(b, a) ==
    /\ ~opt[b].alive
    /\ opt[a].alive
    /\ TypeOf(b) = "T" /\ TypeOf(a) = "TOther"
    /\ IF opt[a].mInitialized
       THEN \E r \in MovedFrom(opt[a].mValue) :
              Step([opt EXCEPT ![b] = emplace(EmptyObject, opt[a].mValue),
                               ![a] = [opt[a] EXCEPT !.mValue = r]],
                   Ev("ConvMoveCtor", b, a, FALSE, <<"ctor">>),
                   [held EXCEPT ![b] = held[a], ![a] = FALSE])
       ELSE Step([opt EXCEPT ![b] = EmptyObject],
                 Ev("ConvMoveCtor", b, a, FALSE, <<>>),
                 [held EXCEPT ![b] = held[a], ![a] = FALSE])

\* explicit Optional(InPlaceT, TArgs&&... args): construct(args...);
\* (also the initializer_list overload).
InPlaceCtor(i, v) ==
    /\ ~opt[i].alive
    /\ Step([opt EXCEPT ![i] = construct(EmptyObject, v)],
            WithArg(Ev("InPlaceCtor", i, 0, FALSE, <<"ctor">>), v),
            [held EXCEPT ![i] = TRUE])

\* A constructor from a value that value-initialises the element.
ValueCtor_IgnoresValue(i, v) ==
    /\ ~opt[i].alive
    /\ Step([opt EXCEPT ![i] = construct(EmptyObject, 0)],
            WithArg(Ev("ValueCtor", i, 0, FALSE, <<"ctor">>), v),
            [held EXCEPT ![i] = TRUE])

\* Optional(TOther&& value): construct(std::forward<TOther>(value));
ValueCtor(i, v) ==
    /\ ~opt[i].alive
    /\ Step([opt EXCEPT ![i] = construct(EmptyObject, v)],
            WithArg(Ev("ValueCtor", i, 0, FALSE, <<"ctor">>), v),
            [held EXCEPT ![i] = TRUE])

\* ~Optional() noexcept { if (mInitialized) reset(); }
Dtor(i) ==
    /\ opt[i].alive
    /\ Step([opt EXCEPT ![i] = NoObject],
            Ev("Dtor", i, 0, FALSE,
               IF opt[i].mInitialized THEN resetOps(opt[i]) ELSE <<>>),
            [held EXCEPT ![i] = FALSE])

(***************************************************************************)
(* Assignment operators.  Both operands are within their lifetime; the    *)
(* same-type operators accept the same object on both sides.              *)
(***************************************************************************)

\* An assignment of NullOptional that clears the flag and destroys nothing.
AssignNullOpt_FlagOnly(i) ==
    /\ opt[i].alive
    /\ Step([opt EXCEPT ![i].mInitialized = FALSE],
            Ev("AssignNullOpt", i, 0, FALSE, <<>>),
            [held EXCEPT ![i] = FALSE])

\* Optional& operator=(NullOptionalT) noexcept { reset(); return *this; }
AssignNullOpt(i) ==
    /\ opt[i].alive
    /\ Step([opt EXCEPT ![i] = reset(opt[i])],
            Ev("AssignNullOpt", i, 0, FALSE, resetOps(opt[i])),
            [held EXCEPT ![i] = FALSE])

\* A copy assignment that destroys and reconstructs the target's element
\* where the code assigns it.
copyAssignBody_Reconstructs(name, b, a, assignOp, ctorOp) ==
    IF opt[a].mInitialized
    THEN Step([opt EXCEPT ![b] = construct(reset(opt[b]), opt[a].mValue)],
              Ev(name, b, a, FALSE, resetOps(opt[b]) \o <<ctorOp>>),
              [held EXCEPT ![b] = held[a]])
    ELSE Step([opt EXCEPT ![b] = reset(opt[b])],
              Ev(name, b, a, FALSE, resetOps(opt[b])),
              [held EXCEPT ![b] = held[a]])

\* The body shared by operator=(const Optional&) and
\* operator=(const Optional<TOther>&):
\*   if (mInitialized && other.mInitialized) mValue = other.mValue;
\*   else if (other.mInitialized) construct(other.mValue);
\*   else reset();
copyAssignBody(name, b, a, assignOp, ctorOp) ==
    IF opt[b].mInitialized /\ opt[a].mInitialized
    THEN Step([opt EXCEPT ![b].mValue = opt[a].mValue],
              Ev(name, b, a, FALSE, <<assignOp>>),
              [held EXCEPT ![b] = held[a]])
    ELSE IF opt[a].mInitialized
    THEN Step([opt EXCEPT ![b] = construct(opt[b], opt[a].mValue)],
              Ev(name, b, a, FALSE, <<ctorOp>>),
              [held EXCEPT ![b] = held[a]])
    ELSE Step([opt EXCEPT ![b] = reset(opt[b])],
              Ev(name, b, a, FALSE, resetOps(opt[b])),
              [held EXCEPT ![b] = held[a]])

\* Optional& operator=(const Optional& other)
CopyAssign(b, a) ==
    /\ opt[b].alive /\ opt[a].alive
    /\ TypeOf(a) = TypeOf(b)
    /\ copyAssignBody("CopyAssign", b, a, "copyAssigned", "copyCtor")

\* The history of a move assignment b = std::move(a): b is as a was, and a
\* has been moved from.
heldAfterMove(b, a) == [[held EXCEPT ![b] = held[a]] EXCEPT ![a] = FALSE]

\* A move assignment that clears the source's flag only where it assigns,
\* not where it constructs.
moveAssignBody_KeepsSourceOnConstruct(name, b, a, assignOp, ctorOp) ==
    IF opt[b].mInitialized /\ opt[a].mInitialized
    THEN \E r \in MovedFrom(opt[a].mValue) :
           LET o1 == [opt EXCEPT ![b].mValue = opt[a].mValue]
               o2 == [o1 EXCEPT ![a].mValue = r]
           IN Step([o2 EXCEPT ![a].mInitialized = FALSE],
                   Ev(name, b, a, FALSE, <<assignOp>>),
                   heldAfterMove(b, a))
    ELSE IF opt[a].mInitialized
    THEN \E r \in MovedFrom(opt[a].mValue) :
           LET o1 == [opt EXCEPT ![b] = construct(opt[b], opt[a].mValue)]
           IN Step([o1 EXCEPT ![a].mValue = r],
                   Ev(name, b, a, FALSE, <<ctorOp>>),
                   heldAfterMove(b, a))
    ELSE Step([opt EXCEPT ![b] = reset(opt[b])],
              Ev(name, b, a, FALSE, resetOps(opt[b])),
              heldAfterMove(b, a))

\* The body shared by operator=(Optional&&) and operator=(Optional<TOther>&&):
\*   if (mInitialized && other.mInitialized) {
\*       mValue = std::move(other.mValue); other.mInitialized = false; }
\*   else if (other.mInitialized) {
\*       construct(std::move(other.mValue)); other.mInitialized = false; }
\*   else reset();
\* The moved-from element of other is not destroyed.
moveAssignBody(name, b, a, assignOp, ctorOp) ==
    IF opt[b].mInitialized /\ opt[a].mInitialized
    THEN \E r \in MovedFrom(opt[a].mValue) :
           LET o1 == [opt EXCEPT ![b].mValue = opt[a].mValue]
               o2 == [o1 EXCEPT ![a].mValue = r]
           IN Step([o2 EXCEPT ![a].mInitialized = FALSE],
                   Ev(name, b, a, FALSE, <<assignOp>>),
                   heldAfterMove(b, a))
    ELSE IF opt[a].mInitialized
    THEN \E r \in MovedFrom(opt[a].mValue) :
           LET o1 == [opt EXCEPT ![b] = construct(opt[b], opt[a].mValue)]
               o2 == [o1 EXCEPT ![a].mValue = r]
           IN Step([o2 EXCEPT ![a].mInitialized = FALSE],
                   Ev(name, b, a, FALSE, <<ctorOp>>),
                   heldAfterMove(b, a))
    ELSE Step([opt EXCEPT ![b] = reset(opt[b])],
              Ev(name, b, a, FALSE, resetOps(opt[b])),
              heldAfterMove(b, a))

\* Optional& operator=(Optional&& other)
MoveAssign(b, a) ==
    /\ opt[b].alive /\ opt[a].alive
    /\ TypeOf(a) = TypeOf(b)
    /\ moveAssignBody("MoveAssign", b, a, "moveAssigned", "moveCtor")

\* Optional& operator=(TOther&& value):
\*   if (mInitialized) mValue = std::forward<TOther>(value);
\*   else construct(std::forward<TOther>(value));
ValueAssign(i, v) ==
    /\ opt[i].alive
    /\ IF opt[i].mInitialized
       THEN Step([opt EXCEPT ![i].mValue = v],
                 WithArg(Ev("ValueAssign", i, 0, FALSE, <<"assigned">>), v),
                 [held EXCEPT ![i] = TRUE])
       ELSE Step([opt EXCEPT ![i] = construct(opt[i], v)],
                 WithArg(Ev("ValueAssign", i, 0, FALSE, <<"ctor">>), v),
                 [held EXCEPT ![i] = TRUE])

\* Optional& operator=(const Optional<TOther>& other)
ConvCopyAssign(b, a) ==
    /\ opt[b].alive /\ opt[a].alive
    /\ TypeOf(b) = "T" /\ TypeOf(a) = "TOther"
    /\ copyAssignBody("ConvCopyAssign", b, a, "assigned", "ctor")

\* A converting move assignment that leaves the target alone when the
\* source is empty.
ConvMoveAssign_NoReset(b, a) ==
    /\ opt[b].alive /\ opt[a].alive
    /\ TypeOf(b) = "T" /\ TypeOf(a) = "TOther"
    /\ IF opt[a].mInitialized
       THEN moveAssignBody("ConvMoveAssign", b, a, "assigned", "ctor")
       ELSE Step(opt, Ev("ConvMoveAssign", b, a, FALSE, <<>>), heldAfterMove(b, a))

\* Optional& operator=(Optional<TOther>&& other)
ConvMoveAssign(b, a) ==
    /\ opt[b].alive /\ opt[a].alive
    /\ TypeOf(b) = "T" /\ TypeOf(a) = "TOther"
    /\ moveAssignBody("ConvMoveAssign", b, a, "assigned", "ctor")

(***************************************************************************)
(* Modifiers and observers.                                                *)
(***************************************************************************)

\* An emplace() that constructs over the held element without destroying it.
Emplace_NoReset(i, v) ==
    /\ opt[i].alive
    /\ TypeOf(i) # "TRef"
    /\ Step([opt EXCEPT ![i] = construct(opt[i], v)],
            WithArg(Ev("Emplace", i, 0, FALSE, <<"ctor">>), v),
            [held EXCEPT ![i] = TRUE])

\* ValueType& emplace(TArgs&&... args): reset(); construct(args...);
\* enabled only when T is not a reference.
Emplace(i, v) ==
    /\ opt[i].alive
    /\ TypeOf(i) # "TRef"
    /\ Step([opt EXCEPT ![i] = emplace(opt[i], v)],
            WithArg(Ev("Emplace", i, 0, FALSE, resetOps(opt[i]) \o <<"ctor">>), v),
            [held EXCEPT ![i] = TRUE])

\* A swap() that, when one side is empty, moves the element across and
\* forgets to reset the side it came from.
Swap_NoReset(a, b) ==
    /\ opt[a].alive /\ opt[b].alive
    /\ TypeOf(a) = TypeOf(b)
    /\ LET h == [held EXCEPT ![a] = held[b], ![b] = held[a]]
       IN IF opt[a].mInitialized /\ opt[b].mInitialized
          THEN Step([opt EXCEPT ![a].mValue = opt[b].mValue,
                                ![b].mValue = opt[a].mValue],
                    Ev("Swap", a, b, FALSE, <<"swap">>), h)
          ELSE IF opt[a].mInitialized
          THEN Step([opt EXCEPT ![b] = construct(opt[b], opt[a].mValue)],
                    Ev("Swap", a, b, FALSE, <<"moveCtor">>), h)
          ELSE IF opt[b].mInitialized
          THEN Step([opt EXCEPT ![a] = construct(opt[a], opt[b].mValue)],
                    Ev("Swap", a, b, FALSE, <<"moveCtor">>), h)
          ELSE Step(opt, Ev("Swap", a, b, FALSE, <<>>), h)

\* void swap(Optional& other):
\*   if (mInitialized && other.mInitialized) swap(mValue, other.mValue);
\*   else if (mInitialized) { other.construct(std::move(mValue)); reset(); }
\*   else if (other.mInitialized) { construct(std::move(other.mValue)); other.reset(); }
Swap(a, b) ==
    /\ opt[a].alive /\ opt[b].alive
    /\ TypeOf(a) = TypeOf(b)
    /\ LET h == [held EXCEPT ![a] = held[b], ![b] = held[a]]
       IN IF opt[a].mInitialized /\ opt[b].mInitialized
          THEN Step([opt EXCEPT ![a].mValue = opt[b].mValue,
                                ![b].mValue = opt[a].mValue],
                    Ev("Swap", a, b, FALSE, <<"swap">>), h)
          ELSE IF opt[a].mInitialized
          THEN Step([opt EXCEPT ![b] = construct(opt[b], opt[a].mValue),
                                ![a] = reset(opt[a])],
                    Ev("Swap", a, b, FALSE, <<"moveCtor", "dtor">>), h)
          ELSE IF opt[b].mInitialized
          THEN Step([opt EXCEPT ![a] = construct(opt[a], opt[b].mValue),
                                ![b] = reset(opt[b])],
                    Ev("Swap", a, b, FALSE, <<"moveCtor", "dtor">>), h)
          ELSE Step(opt, Ev("Swap", a, b, FALSE, <<>>), h)

\* void reset() noexcept
Reset(i) ==
    /\ opt[i].alive
    /\ Step([opt EXCEPT ![i] = reset(opt[i])],
            Ev("Reset", i, 0, FALSE, resetOps(opt[i])),
            [held EXCEPT ![i] = FALSE])

\* What mValue denotes: the element itself, or for Optional<T&> the external
\* object the reference_wrapper is bound to (mValue.get()).
denoted(i) == IF TypeOf(i) = "TRef" THEN ext[opt[i].mValue] ELSE opt[i].mValue

\* A value() without the check, as operator* is.
Value_Unchecked(i, q) ==
    /\ opt[i].alive
    /\ TypeOf(i) = "TRef" => q # "&&"
    /\ Step(opt, EvQ("Value", i, 0, FALSE, <<>>, q), held)

\* value() const&, value() & and value() &&:
\*   if (!mInitialized) throw BadOptionalAccess(); return mValue;
\* value() && exists only when T is not a reference.  The call changes no
\* member; raised records that BadOptionalAccess was thrown, res what was
\* returned otherwise.
Value(i, q) ==
    /\ opt[i].alive
    /\ TypeOf(i) = "TRef" => q # "&&"
    /\ IF opt[i].mInitialized
       THEN Step(opt, WithRes(EvQ("Value", i, 0, FALSE, <<>>, q), denoted(i)), held)
       ELSE Step(opt, EvQ("Value", i, 0, TRUE, <<>>, q), held)

\* bool hasValue() const noexcept { return mInitialized; } as a call.
HasValue(i) ==
    /\ opt[i].alive
    /\ Step(opt, WithRes(Ev("HasValue", i, 0, FALSE, <<>>), hasValue(opt[i])), held)

\* What operator* and operator-> may do on an empty optional: the assert
\* aborts, or without it the storage is read as if it held an element.
Unchecked == Vals \cup {NoVal}

\* operator*() const& and operator*() &: assert(mInitialized); return mValue;
\* For Optional<T&> the reference_wrapper converts to a reference to the
\* object it is bound to.
Deref(i) ==
    /\ opt[i].alive
    /\ IF opt[i].mInitialized
       THEN Step(opt, WithRes(Ev("Deref", i, 0, FALSE, <<>>), denoted(i)), held)
       ELSE \E r \in Unchecked :
                Step(opt, WithRes(Ev("Deref", i, 0, FALSE, <<>>), r), held)

\* No value: the expression is not one the language gives a meaning to.
IllFormed == NoVal - 1

\* operator->() const and operator->(): assert(mInitialized); return &mValue;
\* The pointer is to the member mValue.  For Optional<T&> that member is a
\* std::reference_wrapper<T>, and a std::reference_wrapper<T>* does not
\* convert to the TRaw* the operator returns: the call is ill-formed and
\* yields nothing.
Arrow(i) ==
    /\ opt[i].alive
    /\ IF TypeOf(i) = "TRef"
       THEN Step(opt, WithRes(Ev("Arrow", i, 0, FALSE, <<>>), IllFormed), held)
       ELSE IF opt[i].mInitialized
       THEN Step(opt, WithRes(Ev("Arrow", i, 0, FALSE, <<>>), opt[i].mValue), held)
       ELSE \E r \in Unchecked :
                Step(opt, WithRes(Ev("Arrow", i, 0, FALSE, <<>>), r), held)

\* An assignment to an external object made outside every optional (v = 3).
ExtWrite(x, v) ==
    /\ ext[x] # v
    /\ StepExt(opt, WithArg(Ev("ExtWrite", 0, 0, FALSE, <<>>), x), held,
               [ext EXCEPT ![x] = v])

\* What valueOr returns: ref names the external object the returned
\* reference is to (NoVal when a value is returned), val its value.
Returned(r, v) == [ref |-> r, val |-> v]

\* A valueOr that returns the fallback whatever the optional holds.
ValueOr_ReturnsFallback(i, f) ==
    /\ opt[i].alive
    /\ TypeOf(i) # "TOther"
    /\ IF TypeOf(i) = "TRef"
       THEN Step(opt, WithArg(WithRes(Ev("ValueOr", i, 0, FALSE, <<>>),
                                      Returned(f, ext[f])), f), held)
       ELSE Step(opt, WithArg(WithRes(Ev("ValueOr", i, 0, FALSE, <<>>),
                                      Returned(NoVal, f)), f), held)

\* valueOr(TOther&& value) const, T not a reference, TOther the same as T:
\*   return mInitialized ? mValue : static_cast<TRaw>(std::forward<TOther>(value));
\* TRef valueOr(TOther& value), T a reference (and the const overload):
\*   return mInitialized ? mValue.get() : value;
\* f is the fallback: a value for a value type, an external object for a
\* reference type.
ValueOr(i, f) ==
    /\ opt[i].alive
    /\ TypeOf(i) # "TOther"
    /\ IF TypeOf(i) = "TRef"
       THEN LET r == IF opt[i].mInitialized THEN opt[i].mValue ELSE f
            IN  Step(opt, WithArg(WithRes(Ev("ValueOr", i, 0, FALSE, <<>>),
                                          Returned(r, ext[r])), f), held)
       ELSE LET v == IF opt[i].mInitialized THEN opt[i].mValue ELSE f
            IN  Step(opt, WithArg(WithRes(Ev("ValueOr", i, 0, FALSE, <<>>),
                                          Returned(NoVal, v)), f), held)

(***************************************************************************)
(* Comparison operators and hash.  x and y are optional objects of a      *)
(* value type, v a bare value; the elements compare as integers do.       *)
(***************************************************************************)

\* explicit operator bool() const noexcept { return mInitialized; }
Bool(x) == x.mInitialized

\* An operator== for which two empty optionals differ.
OptEq_EmptiesDiffer(x, y) ==
    IF Bool(x) # Bool(y) THEN FALSE
    ELSE IF Bool(x) = FALSE THEN FALSE ELSE x.mValue = y.mValue

\* operator==(x, y): bool(x) != bool(y) ? false : bool(x) == false ? true : *x == *y
OptEq(x, y) ==
    IF Bool(x) # Bool(y) THEN FALSE
    ELSE IF Bool(x) = FALSE THEN TRUE ELSE x.mValue = y.mValue

\* operator!=(x, y): !(x == y)
OptNe(x, y) == ~OptEq(x, y)

\* operator<(x, y): (!y) ? false : (!x) ? true : *x < *y
OptLt(x, y) ==
    IF ~Bool(y) THEN FALSE
    ELSE IF ~Bool(x) THEN TRUE ELSE x.mValue < y.mValue

\* operator>(x, y): (y < x)
OptGt(x, y) == OptLt(y, x)

\* An operator<= with the operands of its operator< the wrong way round.
OptLe_WrongOperands(x, y) == ~OptLt(x, y)

\* operator<=(x, y): !(y < x)
OptLe(x, y) == ~OptLt(y, x)

\* operator>=(x, y): !(x < y)
OptGe(x, y) == ~OptLt(x, y)

\* operator==(x, v): bool(x) ? *x == v : false
OptEqVal(x, v) == IF Bool(x) THEN x.mValue = v ELSE FALSE

\* operator==(v, x): bool(x) ? v == *x : false
ValEqOpt(v, x) == IF Bool(x) THEN v = x.mValue ELSE FALSE

\* operator!=(x, v): bool(x) ? *x != v : true
OptNeVal(x, v) == IF Bool(x) THEN x.mValue # v ELSE TRUE

\* operator!=(v, x): bool(x) ? v != *x : true
ValNeOpt(v, x) == IF Bool(x) THEN v # x.mValue ELSE TRUE

\* operator<(x, v): bool(x) ? *x < v : true
OptLtVal(x, v) == IF Bool(x) THEN x.mValue < v ELSE TRUE

\* operator>(v, x): bool(x) ? v > *x : true
ValGtOpt(v, x) == IF Bool(x) THEN v > x.mValue ELSE TRUE

\* operator>(x, v): bool(x) ? *x > v : false
OptGtVal(x, v) == IF Bool(x) THEN x.mValue > v ELSE FALSE

\* operator<(v, x): bool(x) ? v < *x : false
ValLtOpt(v, x) == IF Bool(x) THEN v < x.mValue ELSE FALSE

\* operator>=(x, v): bool(x) ? *x >= v : false
OptGeVal(x, v) == IF Bool(x) THEN x.mValue >= v ELSE FALSE

\* An operator<=(v, x) that takes an empty optional for the greater operand.
ValLeOpt_EmptyGreater(v, x) == IF Bool(x) THEN v <= x.mValue ELSE TRUE

\* operator<=(v, x): bool(x) ? v <= *x : false
ValLeOpt(v, x) == IF Bool(x) THEN v <= x.mValue ELSE FALSE

\* operator<=(x, v): bool(x) ? *x <= v : true
OptLeVal(x, v) == IF Bool(x) THEN x.mValue <= v ELSE TRUE

\* operator>=(v, x): bool(x) ? v >= *x : true
ValGeOpt(v, x) == IF Bool(x) THEN v >= x.mValue ELSE TRUE

\* operator==(x, NullOptionalT): (!x)
OptEqNull(x) == ~Bool(x)

\* operator==(NullOptionalT, x): (!x)
NullEqOpt(x) == ~Bool(x)

\* operator!=(x, NullOptionalT): bool(x)
OptNeNull(x) == Bool(x)

\* operator!=(NullOptionalT, x): bool(x)
NullNeOpt(x) == Bool(x)

\* operator<(x, NullOptionalT): false
OptLtNull(x) == FALSE

\* operator<(NullOptionalT, x): bool(x)
NullLtOpt(x) == Bool(x)

\* operator<=(x, NullOptionalT): (!x)
OptLeNull(x) == ~Bool(x)

\* operator<=(NullOptionalT, x): true
NullLeOpt(x) == TRUE

\* An operator>(x, NullOptionalT) that is never true.
OptGtNull_Never(x) == FALSE

\* operator>(x, NullOptionalT): bool(x)
OptGtNull(x) == Bool(x)

\* operator>(NullOptionalT, x): false
NullGtOpt(x) == FALSE

\* operator>=(x, NullOptionalT): true
OptGeNull(x) == TRUE

\* operator>=(NullOptionalT, x): (!x)
NullGeOpt(x) == ~Bool(x)

\* std::hash<T> of the element type.  It is the element type's, not the
\* optional's; one that is not the identity tells the hash of a value from
\* the value.
ElemHash(v) == 2 * v + 1

\* The literal -23 converted to std::size_t.  A size_t is named here by the
\* representative of its residue modulo 2^64 that is nearest to zero.
EmptyHash == -23

\* A hash that gives an empty optional the hash of a value.
OptHash_EmptyAsZero(x) == IF hasValue(x) THEN ElemHash(x.mValue) ELSE ElemHash(0)

\* std::hash<Optional<T>>::operator():
\*   o.hasValue() ? std::hash<T>{}(o.value()) : -23
OptHash(x) == IF hasValue(x) THEN ElemHash(x.mValue) ELSE EmptyHash

\* x == y, x != y, x < y, x > y, x <= y, x >= y on two optionals of one type.
Compare(i, j) ==
    /\ opt[i].alive /\ opt[j].alive
    /\ TypeOf(i) = TypeOf(j) /\ TypeOf(i) # "TRef"
    /\ Step(opt,
            WithRes(Ev("Compare", i, j, FALSE, <<>>),
                    [eq |-> OptEq(opt[i], opt[j]), ne |-> OptNe(opt[i], opt[j]),
                     lt |-> OptLt(opt[i], opt[j]), gt |-> OptGt(opt[i], opt[j]),
                     le |-> OptLe(opt[i], opt[j]), ge |-> OptGe(opt[i], opt[j])]),
            held)

\* The six operators on an optional x and a bare value v, and (the fields
\* ending in R) on v and x.
CompareValue(i, v) ==
    /\ opt[i].alive
    /\ TypeOf(i) # "TRef"
    /\ Step(opt,
            WithArg(WithRes(Ev("CompareValue", i, 0, FALSE, <<>>),
                    [eq |-> OptEqVal(opt[i], v), eqR |-> ValEqOpt(v, opt[i]),
                     ne |-> OptNeVal(opt[i], v), neR |-> ValNeOpt(v, opt[i]),
                     lt |-> OptLtVal(opt[i], v), ltR |-> ValLtOpt(v, opt[i]),
                     gt |-> OptGtVal(opt[i], v), gtR |-> ValGtOpt(v, opt[i]),
                     le |-> OptLeVal(opt[i], v), leR |-> ValLeOpt(v, opt[i]),
                     ge |-> OptGeVal(opt[i], v), geR |-> ValGeOpt(v, opt[i])]), v),
            held)

\* The six operators on an optional x and NullOptional, and (the fields
\* ending in R) on NullOptional and x.
CompareNull(i) ==
    /\ opt[i].alive
    /\ Step(opt,
            WithRes(Ev("CompareNull", i, 0, FALSE, <<>>),
                    [eq |-> OptEqNull(opt[i]), eqR |-> NullEqOpt(opt[i]),
                     ne |-> OptNeNull(opt[i]), neR |-> NullNeOpt(opt[i]),
                     lt |-> OptLtNull(opt[i]), ltR |-> NullLtOpt(opt[i]),
                     gt |-> OptGtNull(opt[i]), gtR |-> NullGtOpt(opt[i]),
                     le |-> OptLeNull(opt[i]), leR |-> NullLeOpt(opt[i]),
                     ge |-> OptGeNull(opt[i]), geR |-> NullGeOpt(opt[i])]),
            held)

\* std::hash<Optional<T>>{}(o)
Hash(i) ==
    /\ opt[i].alive
    /\ TypeOf(i) # "TRef"
    /\ Step(opt, WithRes(Ev("Hash", i, 0, FALSE, <<>>), OptHash(opt[i])), held)

(***************************************************************************)
(* Operations in which the element's constructor throws.  construct() is  *)
(*   placement new of ValueType(args...) into mValue; mInitialized = true; *)
(* so an exception leaves the placement new before the flag is set and no *)
(* element has been constructed.  nothrow is the value of the operation's *)
(* noexcept specification for the element type: where it is true the      *)
(* exception cannot leave the operation and std::terminate is called.     *)
(***************************************************************************)

\* The record of an operation left by an exception of the element type.
Thrown(name, t, s, ops, nothrow) ==
    Ev(name, t, s, TRUE,
       ops \o <<"throw">> \o (IF nothrow THEN <<"terminate">> ELSE <<>>))

\* An emplace() whose construct() sets the flag before the placement new.
EmplaceThrows_FlagFirst(i) ==
    /\ opt[i].alive
    /\ TypeOf(i) # "TRef"
    /\ Step([opt EXCEPT ![i] = [reset(opt[i]) EXCEPT !.mInitialized = TRUE]],
            Thrown("Emplace", i, 0, resetOps(opt[i]), FALSE),
            [held EXCEPT ![i] = FALSE])

\* emplace(args...): reset(); construct(args...) throws.
\*   noexcept(is_nothrow_constructible<ValueType, TArgs...>) is false for a
\* constructor that can throw.
EmplaceThrows(i) ==
    /\ opt[i].alive
    /\ TypeOf(i) # "TRef"
    /\ Step([opt EXCEPT ![i] = reset(opt[i])],
            Thrown("Emplace", i, 0, resetOps(opt[i]), FALSE),
            [held EXCEPT ![i] = FALSE])

\* operator=(const Optional& other) into an empty target:
\*   construct(other.mValue) throws.
\*   noexcept(is_nothrow_assignable<ValueType, ValueType>) speaks of the
\* element's assignment, not of the copy constructor that threw.
CopyAssignThrows(b, a) ==
    /\ opt[b].alive /\ opt[a].alive
    /\ TypeOf(a) = TypeOf(b) /\ TypeOf(b) # "TRef"
    /\ ~opt[b].mInitialized /\ opt[a].mInitialized
    /\ \E nothrow \in BOOLEAN :
           Step(opt, Thrown("CopyAssign", b, a, <<>>, nothrow), held)

\* operator=(Optional&& other) into an empty target:
\*   construct(std::move(other.mValue)) throws; other.mInitialized = false
\* is not reached.  noexcept(is_nothrow_assignable<ValueType, ValueType>).
MoveAssignThrows(b, a) ==
    /\ opt[b].alive /\ opt[a].alive
    /\ TypeOf(a) = TypeOf(b) /\ TypeOf(b) # "TRef"
    /\ ~opt[b].mInitialized /\ opt[a].mInitialized
    /\ \E nothrow \in BOOLEAN :
           Step(opt, Thrown("MoveAssign", b, a, <<>>, nothrow), held)

\* operator=(TOther&& value) into an empty target:
\*   construct(std::forward<TOther>(value)) throws.
\*   noexcept(is_nothrow_constructible<ValueType, TOther>) is false.
ValueAssignThrows(i) ==
    /\ opt[i].alive
    /\ TypeOf(i) # "TRef"
    /\ ~opt[i].mInitialized
    /\ Step(opt, Thrown("ValueAssign", i, 0, <<>>, FALSE), held)

\* Optional(const Optional& other): construct(other.mValue) throws and the
\* new optional never exists.
\*   noexcept(is_nothrow_constructible<ValueType>) speaks of the element's
\* default constructor, not of the copy constructor that threw.
CopyCtorThrows(b, a) ==
    /\ ~opt[b].alive /\ opt[a].alive
    /\ TypeOf(a) = TypeOf(b) /\ TypeOf(b) # "TRef"
    /\ opt[a].mInitialized
    /\ \E nothrow \in BOOLEAN :
           Step(opt, Thrown("CopyCtor", b, a, <<>>, nothrow), held)

\* Optional(Optional&& other): construct(std::move(other.mValue)) throws;
\* other.mInitialized = false is not reached.
\*   noexcept(is_nothrow_move_constructible<ValueType>) is false.
MoveCtorThrows(b, a) ==
    /\ ~opt[b].alive /\ opt[a].alive
    /\ TypeOf(a) = TypeOf(b) /\ TypeOf(b) # "TRef"
    /\ opt[a].mInitialized
    /\ Step(opt, Thrown("MoveCtor", b, a, <<>>, FALSE), held)

\* Optional(const Optional<TOther>& other): emplace(*other) throws; the
\* constructor has no noexcept specification.
ConvCopyCtorThrows(b, a) ==
    /\ ~opt[b].alive /\ opt[a].alive
    /\ TypeOf(a) = "TOther" /\ TypeOf(b) = "T"
    /\ opt[a].mInitialized
    /\ Step(opt, Thrown("ConvCopyCtor", b, a, <<>>, FALSE), held)

\* Optional(Optional<TOther>&& other): emplace(std::move(*other)) throws.
\*   noexcept(is_nothrow_move_constructible<ValueType>) speaks of the
\* element's move constructor, not of the converting one that threw.
ConvMoveCtorThrows(b, a) ==
    /\ ~opt[b].alive /\ opt[a].alive
    /\ TypeOf(a) = "TOther" /\ TypeOf(b) = "T"
    /\ opt[a].mInitialized
    /\ \E nothrow \in BOOLEAN :
           Step(opt, Thrown("ConvMoveCtor", b, a, <<>>, nothrow), held)

\* Optional(TOther&& value) and Optional(InPlaceT, args...): construct(...)
\* throws.  noexcept(is_nothrow_constructible<ValueType, ...>) is false.
ValueCtorThrows(i) ==
    /\ ~opt[i].alive
    /\ TypeOf(i) # "TRef"
    /\ \E name \in {"ValueCtor", "InPlaceCtor"} :
           Step(opt, Thrown(name, i, 0, <<>>, FALSE), held)

(***************************************************************************)
(* Specifications.                                                         *)
(***************************************************************************)

\* The operations on one optional or on two optionals of the same type,
\* among the objects O.
NextSameTypeOn(O) ==
    \/ \E i \in O : DefaultCtor(i)
    \/ \E i \in O : NullOptCtor(i)
    \/ \E i \in O, v \in Vals : ValueCtor(i, v)
    \/ \E i \in O, v \in Vals : InPlaceCtor(i, v)
    \/ \E b \in O, a \in O : CopyCtor(b, a)
    \/ \E b \in O, a \in O : MoveCtor(b, a)
    \/ \E i \in O : Dtor(i)
    \/ \E i \in O : AssignNullOpt(i)
    \/ \E b \in O, a \in O : CopyAssign(b, a)
    \/ \E b \in O, a \in O : MoveAssign(b, a)
    \/ \E i \in O, v \in Vals : ValueAssign(i, v)
    \/ \E i \in O, v \in Vals : Emplace(i, v)
    \/ \E a \in O, b \in O : Swap(a, b)
    \/ \E i \in O : Reset(i)
    \/ \E i \in O, q \in Quals : Value(i, q)

\* The operations between an Optional<T> and an Optional<TOther>.
NextConverting ==
    \/ \E b \in ConvObjs, a \in ConvObjs : ConvCopyCtor(b, a)
    \/ \E b \in ConvObjs, a \in ConvObjs : ConvMoveCtor(b, a)
    \/ \E b \in ConvObjs, a \in ConvObjs : ConvCopyAssign(b, a)
    \/ \E b \in ConvObjs, a \in ConvObjs : ConvMoveAssign(b, a)

Next == NextSameTypeOn(ConvObjs) \/ NextConverting

Spec == Init /\ [][Next]_vars

\* The same-type operations alone, on value and reference element types.
NextSameType == NextSameTypeOn(RefObjs)

SpecSameType == Init /\ [][NextSameType]_vars

\* The observers of three optionals of one value type, with the operations
\* that bring the optionals into each of their states: empty from
\* construction, empty after reset, moved from, and holding each value.
NextObserve ==
    \/ \E i \in ObsObjs : DefaultCtor(i)
    \/ \E i \in ObsObjs, v \in Vals : ValueCtor(i, v)
    \/ \E b \in ObsObjs, a \in ObsObjs : MoveCtor(b, a)
    \/ \E i \in ObsObjs, v \in Vals : ValueAssign(i, v)
    \/ \E i \in ObsObjs : Reset(i)
    \/ \E i \in ObsObjs : Dtor(i)
    \/ \E i \in ObsObjs, j \in ObsObjs : Compare(i, j)
    \/ \E i \in ObsObjs, v \in Vals : CompareValue(i, v)
    \/ \E i \in ObsObjs : CompareNull(i)
    \/ \E i \in ObsObjs : Hash(i)

SpecObserve == Init /\ [][NextObserve]_vars

\* An Optional<T> and two Optional<T&> with the external objects the
\* references are bound to: construction and assignment from an l-value and
\* from another optional, the accessors, valueOr, and assignments to the
\* external objects made outside the optionals.
NextRef ==
    \/ \E i \in BindObjs : DefaultCtor(i)
    \/ \E i \in BindObjs, v \in Vals : ValueCtor(i, v)
    \/ \E b \in BindObjs, a \in BindObjs : CopyCtor(b, a)
    \/ \E i \in BindObjs, v \in Vals : ValueAssign(i, v)
    \/ \E b \in BindObjs, a \in BindObjs : CopyAssign(b, a)
    \/ \E i \in BindObjs : Dtor(i)
    \/ \E i \in BindObjs, q \in Quals : Value(i, q)
    \/ \E i \in BindObjs : Deref(i)
    \/ \E i \in BindObjs : Arrow(i)
    \/ \E i \in BindObjs : HasValue(i)
    \/ \E i \in BindObjs, f \in Vals : ValueOr(i, f)
    \/ \E x \in Ext, v \in Vals : ExtWrite(x, v)

SpecRef == Init /\ [][NextRef]_vars

\* Two Optional<T> and an Optional<TOther> of an element type whose
\* constructors can throw: the operations that construct an element, each
\* both completing and throwing.
NextThrow ==
    \/ \E i \in ConvObjs : DefaultCtor(i)
    \/ \E i \in ConvObjs, v \in Vals : ValueCtor(i, v)
    \/ \E b \in ConvObjs, a \in ConvObjs : MoveCtor(b, a)
    \/ \E i \in ConvObjs : Dtor(i)
    \/ \E i \in ConvObjs, v \in Vals : Emplace(i, v)
    \/ \E i \in ConvObjs : EmplaceThrows(i)
    \/ \E b \in ConvObjs, a \in ConvObjs : CopyAssignThrows(b, a)
    \/ \E b \in ConvObjs, a \in ConvObjs : MoveAssignThrows(b, a)
    \/ \E i \in ConvObjs : ValueAssignThrows(i)
    \/ \E b \in ConvObjs, a \in ConvObjs : CopyCtorThrows(b, a)
    \/ \E b \in ConvObjs, a \in ConvObjs : MoveCtorThrows(b, a)
    \/ \E b \in ConvObjs, a \in ConvObjs : ConvCopyCtorThrows(b, a)
    \/ \E b \in ConvObjs, a \in ConvObjs : ConvMoveCtorThrows(b, a)
    \/ \E i \in ConvObjs : ValueCtorThrows(i)

SpecThrow == Init /\ [][NextThrow]_vars

(***************************************************************************)
(* Properties.  T and S abbreviate the operands of the last operation;    *)
(* THeld and SHeld say whether they held a value before it.                *)
(***************************************************************************)

T == ev.tgt

S == ev.src

THeld == pre[ev.tgt].mInitialized

SHeld == pre[ev.src].mInitialized

C2_FlagIffLiveElement ==
    \A i \in Opts : opt[i].alive => (opt[i].mInitialized <=> opt[i].live)

C4_ConvMoveCtorEmptiesSource ==
    (ev.op = "ConvMoveCtor" /\ SHeld) =>
        /\ hasValue(opt[T]) /\ opt[T].mValue = pre[S].mValue
        /\ ~hasValue(opt[S])

\* C4 (amended): converting move construction from a value-holding
\* Optional<TOther> constructs the target from the source's value and leaves
\* the source's flag set: the source still holds its moved-from element.
C4_ConvMoveCtorKeepsSourceFlag ==
    (ev.op = "ConvMoveCtor" /\ SHeld) =>
        /\ hasValue(opt[T]) /\ opt[T].mValue = pre[S].mValue
        /\ hasValue(opt[S]) /\ opt[S].live
        /\ opt[S].mValue \in MovedFrom(pre[S].mValue)

\* C4 witness: a converting move construction from a value-holding source
\* with a value other than the moved-from one.
C4_Witness ==
    /\ ev.op = "ConvMoveCtor" /\ SHeld /\ pre[S].mValue = MaxVal
    /\ hasValue(opt[T]) /\ opt[T].mValue = MaxVal

\* C5: converting copy and converting move construction give a target that
\* holds a value exactly when the source held one, and leave the source's
\* has-value state as it was.
C5_ConvCtorKeepsSourceState ==
    ev.op \in {"ConvCopyCtor", "ConvMoveCtor"} =>
        /\ hasValue(opt[T]) <=> SHeld
        /\ hasValue(opt[S]) <=> SHeld

\* C5 witness: a converting move construction after which the value-holding
\* source still reports a value.
C5_Witness ==
    /\ ev.op = "ConvMoveCtor" /\ SHeld
    /\ hasValue(opt[S]) /\ hasValue(opt[T])

\* C6: value(), in each qualification and on value and reference element
\* types, throws BadOptionalAccess exactly when the optional is empty, and
\* changes nothing: the optional is afterwards the empty (or value-holding)
\* optional it was, so every later operation finds the same object.
\* A property of SpecSameType.
C6_ValueThrowsIffEmpty ==
    ev.op = "Value" =>
        /\ ev.raised <=> ~THeld
        /\ opt = pre
        /\ ev.raised => ~hasValue(opt[T])

\* C6 witness: value() has thrown on an empty Optional<T&>.
C6_Witness ==
    /\ ev.op = "Value" /\ ev.raised /\ TypeOf(T) = "TRef"
    /\ opt[T].alive /\ ~hasValue(opt[T])

\* C7: copy construction leaves the source as it was; from a value-holding
\* source the result holds the source's value, made by exactly one copy
\* construction of the element; from an empty source the result is empty
\* and no element operation ran.
C7_CopyCtorFrame ==
    ev.op = "CopyCtor" =>
        /\ opt[S] = pre[S]
        /\ IF SHeld
           THEN /\ hasValue(opt[T]) /\ opt[T].live
                /\ opt[T].mValue = pre[S].mValue
                /\ ev.ops = <<"copyCtor">>
           ELSE /\ ~hasValue(opt[T]) /\ ~opt[T].live
                /\ ev.ops = <<>>

\* C7 witness: a copy construction from a value-holding source.
C7_Witness ==
    /\ ev.op = "CopyCtor" /\ SHeld
    /\ hasValue(opt[T]) /\ hasValue(opt[S])
    /\ opt[T].mValue = opt[S].mValue

\* C8: copy assignment b = a.  Both hold: only the element's copy
\* assignment runs.  Only a holds: only a copy construction into b runs.
\* a empty: b is reset, its element destroyed if it held one.  In every
\* case a is as it was and b.hasValue() = a.hasValue() afterwards.
C8_CopyAssignBranches ==
    ev.op = "CopyAssign" =>
        /\ (THeld /\ SHeld) => ev.ops = <<"copyAssigned">>
        /\ (~THeld /\ SHeld) => ev.ops = <<"copyCtor">>
        /\ ~SHeld => /\ ~hasValue(opt[T])
                     /\ ev.ops = (IF THeld THEN <<"dtor">> ELSE <<>>)
        /\ SHeld => opt[T].mValue = pre[S].mValue
        /\ opt[S] = pre[S]
        /\ hasValue(opt[T]) <=> hasValue(opt[S])

\* C8 witness: a copy assignment of a value-holding optional to another
\* value-holding optional with a different value.
C8_Witness ==
    /\ ev.op = "CopyAssign" /\ T # S /\ THeld /\ SHeld
    /\ pre[T].mValue # pre[S].mValue
    /\ opt[T].mValue = opt[S].mValue

\* C9: move assignment b = std::move(a).  Both hold: only the element's move
\* assignment runs.  Only a holds: only a move construction into b runs.
\* a empty: b is reset, its element destroyed if it held one.  Whenever a's
\* value was consumed, a is empty afterwards.
C9_MoveAssignBranches ==
    ev.op = "MoveAssign" =>
        /\ (THeld /\ SHeld) => ev.ops = <<"moveAssigned">>
        /\ (~THeld /\ SHeld) => ev.ops = <<"moveCtor">>
        /\ ~SHeld => /\ ~hasValue(opt[T])
                     /\ ev.ops = (IF THeld THEN <<"dtor">> ELSE <<>>)
        /\ (SHeld /\ T # S) => hasValue(opt[T]) /\ opt[T].mValue = pre[S].mValue
        /\ SHeld => ~hasValue(opt[S])

\* C9 witness: a move assignment from a value-holding optional into an
\* empty one.
C9_Witness ==
    /\ ev.op = "MoveAssign" /\ ~THeld /\ SHeld
    /\ hasValue(opt[T]) /\ ~hasValue(opt[S])

\* C10: converting assignment from Optional<TOther>, copy and move, has the
\* branches of the same-type assignment: both hold gives one element
\* assignment, only the source holds gives one construction, an empty
\* source gives a reset; the target holds a value afterwards exactly when the
\* source held one; the copy form leaves the source's has-value state as it
\* was and the move form leaves the source empty.
C10_ConvAssignBranches ==
    ev.op \in {"ConvCopyAssign", "ConvMoveAssign"} =>
        /\ hasValue(opt[T]) <=> SHeld
        /\ (THeld /\ SHeld) => ev.ops = <<"assigned">>
        /\ (~THeld /\ SHeld) => ev.ops = <<"ctor">>
        /\ ~SHeld => ev.ops = (IF THeld THEN <<"dtor">> ELSE <<>>)
        /\ SHeld => opt[T].mValue = pre[S].mValue
        /\ ev.op = "ConvCopyAssign" => (hasValue(opt[S]) <=> SHeld)
        /\ ev.op = "ConvMoveAssign" => ~hasValue(opt[S])

\* C10 witness: a converting copy assignment of a value-holding
\* Optional<TOther> to an empty Optional<T>.
C10_Witness ==
    /\ ev.op = "ConvCopyAssign" /\ ~THeld /\ SHeld
    /\ hasValue(opt[T]) /\ hasValue(opt[S])

\* C11: swap(a, b) on two optionals of one type.  Both hold: the two values
\* are exchanged and both still hold.  Exactly one holds: afterwards the
\* formerly empty one holds that value and the other is empty, by one move
\* construction and one destruction of the element and no copy.  Both
\* empty: nothing changes.  No other optional is touched.
C11_SwapExchanges ==
    ev.op = "Swap" =>
        /\ hasValue(opt[T]) <=> SHeld
        /\ hasValue(opt[S]) <=> THeld
        /\ SHeld => opt[T].mValue = pre[S].mValue
        /\ THeld => opt[S].mValue = pre[T].mValue
        /\ (THeld /\ SHeld) => ev.ops = <<"swap">>
        /\ (THeld # SHeld) => ev.ops = <<"moveCtor", "dtor">>
        /\ (~THeld /\ ~SHeld) => (opt = pre /\ ev.ops = <<>>)
        /\ \A i \in Opts \ {T, S} : opt[i] = pre[i]

\* C11 witness: a swap of a value-holding optional with an empty one.
C11_Witness ==
    /\ ev.op = "Swap" /\ THeld /\ ~SHeld
    /\ ~hasValue(opt[T]) /\ hasValue(opt[S])
    /\ opt[S].mValue = pre[T].mValue

\* C12: emplace(args) destroys the held element, if any, and then constructs
\* the new one, so the optional holds the new value; emplace on an empty
\* optional followed by reset leaves it empty, having run exactly one
\* construction and one destruction of the element and nothing else.
C12_EmplaceThenReset ==
    [][ /\ ev'.op = "Emplace" =>
              /\ hasValue(opt'[ev'.tgt])
              /\ opt'[ev'.tgt].mValue = ev'.arg
              /\ ev'.ops = (IF opt[ev'.tgt].mInitialized
                            THEN <<"dtor", "ctor">> ELSE <<"ctor">>)
        /\ (/\ ev.op = "Emplace" /\ ~pre[ev.tgt].mInitialized
            /\ ev'.op = "Reset" /\ ev'.tgt = ev.tgt) =>
              /\ ~hasValue(opt'[ev.tgt])
              /\ ev.ops \o ev'.ops = <<"ctor", "dtor">>
      ]_vars

\* C12 witness: an emplace into an optional that held another value.
C12_Witness ==
    /\ ev.op = "Emplace" /\ THeld /\ pre[T].mValue # ev.arg
    /\ hasValue(opt[T]) /\ opt[T].mValue = ev.arg
    /\ ev.ops = <<"dtor", "ctor">>

\* C13: reset() on a value-holding optional destroys the element exactly once
\* and clears the flag; on an empty optional it changes nothing and destroys
\* nothing, so a second reset() finds nothing to do; assigning NullOptional
\* has the effect of reset().  A property of SpecSameType.
C13_ResetIdempotent ==
    ev.op \in {"Reset", "AssignNullOpt"} =>
        /\ ~hasValue(opt[T])
        /\ ev.ops = (IF THeld THEN <<"dtor">> ELSE <<>>)
        /\ THeld => ~opt[T].live
        /\ ~THeld => opt = pre
        /\ \A i \in Opts \ {T} : opt[i] = pre[i]
        /\ reset(opt[T]) = opt[T] /\ resetOps(opt[T]) = <<>>

\* C13 witness: NullOptional assigned to a value-holding optional.
C13_Witness ==
    /\ ev.op = "AssignNullOpt" /\ THeld
    /\ ~hasValue(opt[T]) /\ ev.ops = <<"dtor">>

\* C14: x == y holds exactly when both optionals are empty or both hold
\* equal values, and x < y holds exactly when y holds a value and x either
\* is empty or holds a lesser one; the comparison changes neither optional.
\* A property of SpecObserve.
C14_EqualityAndLess ==
    ev.op = "Compare" =>
        /\ ev.res.eq <=> (\/ (~hasValue(opt[T]) /\ ~hasValue(opt[S]))
                          \/ (/\ hasValue(opt[T])
                              /\ hasValue(opt[S])
                              /\ opt[T].mValue = opt[S].mValue))
        /\ ev.res.lt <=> (/\ hasValue(opt[S])
                          /\ (~hasValue(opt[T]) \/ opt[T].mValue < opt[S].mValue))
        /\ opt = pre

C14_Witness ==
    /\ ev.op = "Compare" /\ T # S
    /\ ~hasValue(opt[T]) /\ ~hasValue(opt[S])
    /\ ev.res.eq /\ ~ev.res.lt

\* The optionals of the value type that exist.
Comparable == {i \in ObsObjs : opt[i].alive}

\* C15: on optionals of one type the six relations are those of a total
\* order in which the empty optional is least: < is irreflexive and
\* transitive, <= is transitive and antisymmetric with respect to ==,
\* exactly one of x < y, x == y, x > y holds, and !=, >, <=, >= are the
\* negation of ==, the converse of <, "< or ==" and "> or ==".
\* A property of SpecObserve.
C15_TotalOrder ==
    \A i \in Comparable, j \in Comparable, k \in Comparable :
        LET x == opt[i]
            y == opt[j]
            z == opt[k]
            b2n(b) == IF b THEN 1 ELSE 0
        IN  /\ ~OptLt(x, x)
            /\ (OptLt(x, y) /\ OptLt(y, z)) => OptLt(x, z)
            /\ (OptLe(x, y) /\ OptLe(y, z)) => OptLe(x, z)
            /\ (OptLe(x, y) /\ OptLe(y, x)) => OptEq(x, y)
            /\ b2n(OptLt(x, y)) + b2n(OptEq(x, y)) + b2n(OptGt(x, y)) = 1
            /\ OptNe(x, y) <=> ~OptEq(x, y)
            /\ OptGt(x, y) <=> OptLt(y, x)
            /\ OptLe(x, y) <=> (OptLt(x, y) \/ OptEq(x, y))
            /\ OptGe(x, y) <=> (OptGt(x, y) \/ OptEq(x, y))
            /\ ~hasValue(x) => OptLe(x, y)
            /\ (~hasValue(x) /\ hasValue(y)) => OptLt(x, y)

C15_Witness ==
    /\ ev.op = "Compare"
    /\ \E i \in Comparable, j \in Comparable, k \in Comparable :
           /\ ~hasValue(opt[i]) /\ hasValue(opt[j]) /\ hasValue(opt[k])
           /\ OptLt(opt[i], opt[j]) /\ OptLt(opt[j], opt[k]) /\ OptLt(opt[i], opt[k])

\* C16: compared with a bare value v in either operand order, an empty
\* optional is never equal to v, is less than and less than or equal to
\* every v, and is never greater than or greater than or equal to v; an
\* optional that holds a value compares as that value does, for all six
\* operators.  A property of SpecObserve.
C16_CompareWithValue ==
    ev.op = "CompareValue" =>
        LET r == ev.res
            v == ev.arg
            x == opt[T].mValue
        IN  /\ opt = pre
            /\ ~hasValue(opt[T]) =>
                  /\ ~r.eq /\ ~r.eqR /\ r.ne /\ r.neR
                  /\ r.lt /\ r.le /\ ~r.gt /\ ~r.ge
                  /\ r.gtR /\ r.geR /\ ~r.ltR /\ ~r.leR
            /\ hasValue(opt[T]) =>
                  /\ r.eq <=> (x = v)
                  /\ r.eqR <=> (v = x)
                  /\ r.ne <=> (x # v)
                  /\ r.neR <=> (v # x)
                  /\ r.lt <=> (x < v)
                  /\ r.ltR <=> (v < x)
                  /\ r.gt <=> (x > v)
                  /\ r.gtR <=> (v > x)
                  /\ r.le <=> (x <= v)
                  /\ r.leR <=> (v <= x)
                  /\ r.ge <=> (x >= v)
                  /\ r.geR <=> (v >= x)

C16_Witness ==
    /\ ev.op = "CompareValue" /\ ~hasValue(opt[T])
    /\ ev.res.lt /\ ev.res.gtR /\ ~ev.res.leR /\ ~ev.res.eq

\* C17: compared with NullOptional in either operand order, x equals
\* NullOptional exactly when x is empty; NullOptional is never greater than
\* x and always less than or equal to it; NullOptional < x and
\* x > NullOptional hold exactly when x holds a value; x < NullOptional is
\* always false and x >= NullOptional always true.
\* A property of SpecObserve.
C17_CompareWithNullOptional ==
    ev.op = "CompareNull" =>
        LET r == ev.res
            h == hasValue(opt[T])
        IN  /\ opt = pre
            /\ r.eq <=> ~h
            /\ r.eqR <=> ~h
            /\ r.ne <=> h
            /\ r.neR <=> h
            /\ ~r.gtR
            /\ r.leR
            /\ r.ltR <=> h
            /\ r.gt <=> h
            /\ ~r.lt
            /\ r.ge
            /\ r.le <=> ~h
            /\ r.geR <=> ~h

C17_Witness ==
    /\ ev.op = "CompareNull" /\ hasValue(opt[T])
    /\ ev.res.gt /\ ev.res.ltR /\ ~ev.res.eq /\ ev.res.ge

\* C18: the hash of an optional that holds a value is the element type's
\* hash of that value; the hash of an empty optional is the one fixed value
\* size_t(-23), whether the optional was constructed empty, was reset or was
\* moved from; hashing changes nothing.  A property of SpecObserve.
C18_HashOfOptional ==
    ev.op = "Hash" =>
        /\ opt = pre
        /\ hasValue(opt[T]) => ev.res = ElemHash(opt[T].mValue)
        /\ ~hasValue(opt[T]) => ev.res = 0 - 23

\* The hashed optional is empty because it was moved from: its element was
\* never destroyed.
C18_Witness ==
    /\ ev.op = "Hash" /\ ~hasValue(opt[T]) /\ opt[T].live
    /\ ev.res = 0 - 23

\* The operation just done acted on an Optional<T&>.
OnRef == ev.tgt \in Opts /\ TypeOf(ev.tgt) = "TRef"

\* Constructing or assigning an Optional<T&> changes the binding only:
\* from an l-value the optional is bound to that object, from another
\* optional to what the other is bound to (or to nothing), and no external
\* object changes value.
C19_RebindsOnly ==
    /\ ev.op # "ExtWrite" => ext = extPre
    /\ (OnRef /\ ev.op \in {"ValueCtor", "ValueAssign"}) =>
           /\ hasValue(opt[T]) /\ opt[T].mValue = ev.arg
           /\ \A i \in Opts \ {T} : opt[i] = pre[i]
    /\ (OnRef /\ ev.op \in {"CopyCtor", "CopyAssign"}) =>
           /\ hasValue(opt[T]) <=> SHeld
           /\ SHeld => opt[T].mValue = pre[S].mValue
           /\ \A i \in Opts \ {T} : opt[i] = pre[i]

\* operator* and value() on a bound Optional<T&> yield the value the bound
\* external object has at the time of the call.
C19_StarAndValueYieldBound ==
    (OnRef /\ ev.op \in {"Deref", "Value"} /\ hasValue(opt[T])) =>
        /\ ~ev.raised
        /\ ev.res = ext[opt[T].mValue]
        /\ opt = pre

\* operator-> on a bound Optional<T&> yields the bound external object.
C19_ArrowYieldsBound ==
    (OnRef /\ ev.op = "Arrow" /\ hasValue(opt[T])) =>
        /\ ev.res = ext[opt[T].mValue]
        /\ opt = pre

\* C19: an Optional<T&> stores only a binding: *, -> and value() always
\* yield the current value of the currently bound external object, so a
\* change made to that object outside the optional is visible through it;
\* constructing or assigning the optional, from an l-value or from another
\* Optional<T&>, changes only which object is bound and never the value of
\* an external object.  A property of SpecRef.
C19_ReferenceBinding ==
    /\ C19_RebindsOnly
    /\ C19_StarAndValueYieldBound
    /\ C19_ArrowYieldsBound

Reads == {"Value", "Deref", "HasValue"}

\* C21: constructing Optional<T>(v) and calling value() yields v; calling
\* value(), * or hasValue() again with nothing done in between yields the
\* same result each time, and a read leaves the flag and the contained
\* value of every optional (and every external object) as they were.
\* A property of SpecRef.
C21_RoundTripRead ==
    [][ /\ (/\ ev.op = "ValueCtor" /\ TypeOf(ev.tgt) = "T"
            /\ ev'.op = "Value" /\ ev'.tgt = ev.tgt) =>
               (~ev'.raised /\ ev'.res = ev.arg)
        /\ ev'.op \in Reads => (opt' = opt /\ ext' = ext)
        /\ ev'.op = "HasValue" => (ev'.res <=> opt[ev'.tgt].mInitialized)
        /\ (/\ ev.op \in {"Value", "HasValue"} /\ ev'.op = ev.op
            /\ ev'.tgt = ev.tgt) =>
               (ev'.res = ev.res /\ ev'.raised = ev.raised)
        /\ (/\ ev.op \in {"Value", "Deref"} /\ ev'.op \in {"Value", "Deref"}
            /\ ev'.tgt = ev.tgt /\ opt[ev.tgt].mInitialized) =>
               (/\ ~ev'.raised
                /\ ev'.res = ev.res
                /\ ev'.res = denoted(ev.tgt))
      ]_vars

\* value() has returned the value an Optional<T> holds.
C21_Witness ==
    /\ ev.op = "Value" /\ TypeOf(T) = "T" /\ ~ev.raised
    /\ hasValue(opt[T]) /\ ev.res = opt[T].mValue /\ ev.res = MaxVal
    /\ opt = pre

\* What self-assignment is to keep: the has-value state of the optional,
\* and no constructed element under a cleared flag unless there was one
\* before.
SelfAssignKept ==
    /\ hasValue(opt[T]) <=> THeld
    /\ (pre[T].live => pre[T].mInitialized) => (opt[T].live => opt[T].mInitialized)
    /\ \A i \in Opts \ {T} : opt[i] = pre[i]

\* a = a by copy keeps the state of a.
C23_CopySelfAssign == (ev.op = "CopyAssign" /\ T = S) => SelfAssignKept

\* a = std::move(a) keeps the state of a.
C23_MoveSelfAssign == (ev.op = "MoveAssign" /\ T = S) => SelfAssignKept

\* C23: assigning an optional to itself, by copy or by move, leaves its
\* has-value state unchanged (a value-holding optional still holds a value,
\* an empty one stays empty) and leaves no element undestroyed.
\* A property of SpecSameType.
C23_SelfAssignKeepsState == C23_CopySelfAssign /\ C23_MoveSelfAssign

\* The operations that construct an element.
Constructing ==
    {"Emplace", "CopyAssign", "MoveAssign", "ValueAssign", "CopyCtor", "MoveCtor",
     "ConvCopyCtor", "ConvMoveCtor", "ValueCtor", "InPlaceCtor"}

\* C22: when the element's constructor throws while an operation constructs
\* into the optional's storage, the optional is left empty, its flag false;
\* no optional is flagged as holding a value without a live element; every
\* other optional (a source included) is as it was; and emplace on a
\* value-holding optional has destroyed the old value exactly once.
\* A property of SpecThrow.
C22_ThrowLeavesEmpty ==
    /\ \A i \in Opts : opt[i].mInitialized => opt[i].live
    /\ (ev.raised /\ ev.op \in Constructing) =>
           /\ ~hasValue(opt[T])
           /\ ~pre[T].live => ~opt[T].live
           /\ \A i \in Opts \ {T} : opt[i] = pre[i]
           /\ (ev.op = "Emplace" /\ THeld) =>
                  (~opt[T].live /\ ev.ops = <<"dtor", "throw">>)
           /\ (ev.op # "Emplace" \/ ~THeld) =>
                  (opt = pre /\ ev.ops[1] = "throw")

\* emplace on a value-holding optional has thrown.
C22_Witness ==
    /\ ev.op = "Emplace" /\ ev.raised /\ THeld
    /\ ~hasValue(opt[T]) /\ ~opt[T].live
    /\ ev.ops = <<"dtor", "throw">>

====
